---- MODULE Spec2Model ----
(***************************************************************************)
(* Model of the monitor/history subsystem of the resource monitor:        *)
(* CPUMonitor, MemoryMonitor, DiskMonitor, NetworkMonitor, ProcessMonitor. *)
(* Each monitor owns a running flag, a thread handle, a lock, bounded      *)
(* deques and (disk, network) a rate baseline.  Recorder threads run       *)
(* _monitor_loop; the GUI thread calls start_monitoring, stop_monitoring,  *)
(* get_history and get_current_stats.  Time is counted in seconds: Tick    *)
(* lets one second pass for every time.sleep and Thread.join in progress.  *)
(***************************************************************************)
EXTENDS Integers, Sequences, FiniteSets, TLC

Monitors == {"cpu", "memory", "disk", "network", "process"}

\* the calls that touch no deque, flag or thread: ProcessMonitor's queries
\* on the process table (get_process_list, get_process_by_pid,
\* kill_process), DiskMonitor.get_partitions,
\* MemoryMonitor.get_memory_fragmentation, and the rate arithmetic of
\* DiskMonitor.get_io_counters and NetworkMonitor._update_history taken on
\* its own, one reading against a given baseline
Queries == "queries"

\* ---- bounds of the model ----
MaxThreads == 2          \* Thread objects created over a run
MaxClock == 3            \* OS readings (timestamps) taken over a run
FastDuration == 2        \* history_duration given to the 1 s monitors
DiskDuration == 10       \* history_duration given to the disk monitor
ProcessMaxLen == 2       \* stands for deque(maxlen=3600) of ProcessMonitor
MaxMutations == 1        \* in-place changes a caller makes to returned objects
MaxTraffic == 102400     \* bytes the OS counter can grow by between two readings
MaxPids == 3             \* processes psutil.process_iter enumerates
MaxPartitions == 2       \* partitions psutil.disk_partitions enumerates
MaxZones == 2            \* zone lines of /proc/buddyinfo
MaxOrders == 4           \* free-block counts on a zone line
MaxBlocks == 1           \* free blocks of one order
MaxMem == 2              \* mem.free and mem.available, in units
MaxTime == 3             \* time.time() of a reading

\* ---- identifiers ----
ThreadIds == 1..MaxThreads       \* recorder threads
GuiThread == 0 - 1               \* the thread that runs the Qt event loop
Callers == {GuiThread}
None == 0                        \* Python None for a thread handle / lock owner

\* ---- constructor parameters and literals of the source ----
history_duration(m) == IF m = "disk" THEN DiskDuration ELSE FastDuration

update_interval(m) == IF m = "disk" THEN 5 ELSE 1

max_samples(m) ==
    IF m = "process" THEN ProcessMaxLen
    ELSE history_duration(m) \div update_interval(m)

join_timeout(m) == IF m = "process" THEN 1 ELSE 2

\* cpu and network: prime, then "sleep; if running: update".
\* memory, disk, process: "update; sleep".
SleepsFirst(m) == m \in {"cpu", "network"}

HasRateState(m) == m \in {"disk", "network"}

\* the deques of a monitor, in the order _update_history appends to them
Series(m) ==
    IF m = "process" THEN <<"first", "timestamps">>
    ELSE <<"first", "second", "timestamps">>

\* the series whose elements are mutable objects that get_history hands out
\* as they are: list(deque) copies the deque, not its elements.  CPUMonitor:
\* the per-core lists; DiskMonitor: the partition lists and the I/O dicts.
\* MemoryMonitor builds lists of floats, NetworkMonitor and ProcessMonitor
\* append numbers, and timestamps are immutable datetime objects.
SharedSeries(m) ==
    IF m = "cpu" THEN {"second"}
    ELSE IF m = "disk" THEN {"first", "second"}
    ELSE {}

EmptyHistory == [first |-> <<>>, second |-> <<>>, timestamps |-> <<>>]

NoRate == [io |-> 0, time |-> 0]

\* ---- NetworkMonitor's arithmetic ----
\* a Python float that is the quotient of two integers, kept exact
Rat(n, d) == [num |-> n, den |-> d]

RatEq(a, b) == a.num * b.den = b.num * a.den

\* _last_counters = None
NoCounters == 0 - 1

\* what the OS counter can have grown by since it was last read
Traffic == {0, MaxTraffic}

\* a speed computed without the "if time_diff > 0:" test
compute_speed_unguarded(io, last_counters, time_diff) ==
    IF last_counters # NoCounters
    THEN Rat(io - last_counters, time_diff)
    ELSE Rat(0, 1)

\* _update_history: "upload_speed = 0", and, "if self._last_counters and
\* self._last_time:" and "if time_diff > 0:",
\* (io.bytes - self._last_counters.bytes) / time_diff
compute_speed(io, last_counters, time_diff) ==
    IF last_counters # NoCounters /\ time_diff > 0
    THEN Rat(io - last_counters, time_diff)
    ELSE Rat(0, 1)

\* "speed / 1000": the decimal kilobyte
to_kbps_decimal(speed) == Rat(speed.num, speed.den * 1000)

\* "self.download_history.append(download_speed / 1024)  # KB/s"
to_kbps(speed) == Rat(speed.num, speed.den * 1024)

\* a reading no NetworkMonitor recorder has taken
NoSample == [by |-> None, b0 |-> NoCounters, b1 |-> 0, dt |-> 0,
             speed |-> Rat(0, 1), kbps |-> Rat(0, 1)]

\* ---- ProcessMonitor's queries: data ----
Pids == 1..MaxPids

\* the sub-sections of get_process_by_pid, in the order it gathers them
Sections == <<"cpu", "memory", "io", "threads", "open_files", "connections",
              "cmdline", "environ">>

\* the keys of the "Información básica" dict
BasicKeys == {"pid", "name", "status", "username", "create_time"}

\* the keys the try body of a sub-section sets
SectionKeys(sec) ==
    CASE sec = "cpu" -> {"cpu_percent", "cpu_times"}
      [] sec = "memory" -> {"memory_rss", "memory_vms", "memory_percent", "memory_mb"}
      [] sec = "io" -> {"io_read_bytes", "io_write_bytes", "io_read_mb", "io_write_mb"}
      [] sec = "threads" -> {"num_threads", "threads"}
      [] sec = "open_files" -> {"open_files"}
      [] sec = "connections" -> {"connections"}
      [] sec = "cmdline" -> {"cmdline", "exe", "cwd"}
      [] sec = "environ" -> {"environ"}

\* an "except psutil.AccessDenied" that sets every key of its sub-section
DeniedKeys_all(sec) == SectionKeys(sec)

\* the keys the "except psutil.AccessDenied" of a sub-section sets
DeniedKeys(sec) ==
    IF sec = "io" THEN {"io_read_bytes", "io_write_bytes"} ELSE SectionKeys(sec)

\* what a psutil call on a process can end in.  ZombieProcess is a subclass
\* of NoSuchProcess and is caught wherever NoSuchProcess is.
Outcomes == {"ok", "AccessDenied", "NoSuchProcess"}

\* what proc.info can hold for a process: names are strings, written as
\* their character codes ("ab", "Ac", "b"); the last row is what the "or"
\* defaults give when access to the fields was denied ("Unknown", 0.0)
Rows == { [cpu_percent |-> 5,  name |-> <<97, 98>>],
          [cpu_percent |-> 50, name |-> <<65, 99>>],
          [cpu_percent |-> 10, name |-> <<98>>],
          [cpu_percent |-> 0,  name |-> <<85, 110>>] }

SortKeys == {"cpu_percent", "pid", "name", "username"}

\* str.lower(), character by character
lower(str) == [i \in 1..Len(str) |-> IF str[i] >= 65 /\ str[i] <= 90 THEN str[i] + 32 ELSE str[i]]

\* str < str of Python: by the first character that differs, a prefix first
StrLess(a, b) ==
    \E i \in 1..Len(b) :
        /\ \A j \in 1..(i - 1) : j <= Len(a) /\ a[j] = b[j]
        /\ (i > Len(a) /\ i - 1 = Len(a)) \/ (i <= Len(a) /\ a[i] < b[i])

\* a sort key that does not lower-case the name
KeyLess_case_sensitive(x, y, sort_by) ==
    IF sort_by = "name" THEN StrLess(x.name, y.name)
    ELSE x[sort_by] < y[sort_by]

\* key(x) < key(y) for "key=lambda x: x.get(sort_by, 0)" and for
\* "key=lambda x: x.get('name', '').lower()"
KeyLess(x, y, sort_by) ==
    IF sort_by = "name" THEN StrLess(lower(x.name), lower(y.name))
    ELSE x[sort_by] < y[sort_by]

\* list.sort is stable, with reverse=True as well: x goes before the first
\* element it must precede, after every element it ties with
Insert(x, sorted, sort_by, reverse) ==
    LET precedes(e) == IF reverse THEN KeyLess(e, x, sort_by) ELSE KeyLess(x, e, sort_by)
        at == IF \E i \in 1..Len(sorted) : precedes(sorted[i])
              THEN CHOOSE i \in 1..Len(sorted) :
                      precedes(sorted[i]) /\ \A j \in 1..(i - 1) : ~precedes(sorted[j])
              ELSE Len(sorted) + 1
    IN  SubSeq(sorted, 1, at - 1) \o <<x>> \o SubSeq(sorted, at, Len(sorted))

RECURSIVE list_sort(_, _, _)
list_sort(processes, sort_by, reverse) ==
    IF processes = <<>> THEN <<>>
    ELSE Insert(processes[Len(processes)],
                list_sort(SubSeq(processes, 1, Len(processes) - 1), sort_by, reverse),
                sort_by, reverse)

\* "if sort_by in [...]: processes.sort(...) elif sort_by == 'name':
\* processes.sort(...)": any other sort_by leaves the enumeration order
sort_processes(processes, sort_by, descending) ==
    IF sort_by \in {"cpu_percent", "pid", "name"}
    THEN list_sort(processes, sort_by, descending)
    ELSE processes

\* ---- DiskMonitor.get_partitions: data ----
Devices == 1..MaxPartitions

\* what psutil.disk_partitions(all=False) can return
PartitionLists == UNION {[1..n -> Devices] : n \in 0..MaxPartitions}

\* what psutil.disk_usage(mountpoint) can do
UsageOutcomes == {"ok", "PermissionError", "OSError"}

PartitionKeys == {"device", "mountpoint", "fstype", "opts"}

UsageKeys == {"total", "used", "free", "percent", "total_gb", "used_gb", "free_gb"}

\* a loop body whose handler passes over the partition
partition_entry_omits(partitions, device, outcome) ==
    IF outcome = "ok"
    THEN Append(partitions, [device |-> device, keys |-> PartitionKeys \cup UsageKeys])
    ELSE partitions

\* the body of "for partition in psutil.disk_partitions(all=False):" the
\* try appends the dict with the usage fields, "except (PermissionError,
\* OSError):" appends the dict with 'error'
partition_entry(partitions, device, outcome) ==
    IF outcome = "ok"
    THEN Append(partitions, [device |-> device, keys |-> PartitionKeys \cup UsageKeys])
    ELSE Append(partitions, [device |-> device, keys |-> PartitionKeys \cup {"error"}])

\* ---- MemoryMonitor.get_memory_fragmentation: data and arithmetic ----
\* the free-block counts of one zone line, "[int(x) for x in parts[4:]]"
BlockLists == UNION {[1..n -> 0..MaxBlocks] : n \in 0..MaxOrders}

\* the zones parsed from /proc/buddyinfo
ZoneLists == UNION {[1..n -> BlockLists] : n \in 0..MaxZones}

RECURSIVE sum(_)
sum(blocks) == IF blocks = <<>> THEN 0 ELSE blocks[1] + sum(Tail(blocks))

\* "sum(zone['blocks'][:3]) if len(zone['blocks']) >= 3 else
\* sum(zone['blocks'])"
small_blocks(blocks) ==
    IF Len(blocks) >= 3 THEN sum(SubSeq(blocks, 1, 3)) ELSE sum(blocks)

\* "sum(zone['blocks'][3:]) if len(zone['blocks']) > 3 else 0"
large_blocks(blocks) ==
    IF Len(blocks) > 3 THEN sum(SubSeq(blocks, 4, Len(blocks))) ELSE 0

RECURSIVE total_small(_)
total_small(zones) ==
    IF zones = <<>> THEN 0 ELSE small_blocks(zones[1]) + total_small(Tail(zones))

RECURSIVE total_large(_)
total_large(zones) ==
    IF zones = <<>> THEN 0 ELSE large_blocks(zones[1]) + total_large(Tail(zones))

\* "if total_small + total_large > 0: fragmentation_ratio = total_small /
\* (total_small + total_large)", 0.0 otherwise
buddyinfo_ratio(zones) ==
    IF total_small(zones) + total_large(zones) > 0
    THEN Rat(total_small(zones), total_small(zones) + total_large(zones))
    ELSE Rat(0, 1)

\* "speculative / (free_pages + speculative + 1)" when both keys were
\* parsed and "free_pages + speculative > 0", 0.0 otherwise
vm_stat_ratio(parsed, free_pages, speculative) ==
    IF parsed /\ free_pages + speculative > 0
    THEN Rat(speculative, free_pages + speculative + 1)
    ELSE Rat(0, 1)

\* "if mem.available > 0: fragmentation_ratio = 1 - (mem.free /
\* mem.available)", 0.0 otherwise.  1 - f/a is (a - f)/a.
fallback_ratio(free, available) ==
    IF available > 0 THEN Rat(available - free, available) ELSE Rat(0, 1)

\* ---- DiskMonitor.get_io_counters: the speed of one reading ----
\* _last_io_time = None
NoTime == 0

Times == 1..MaxTime

\* a baseline as the code leaves it: nothing yet, or a reading and the
\* time it was stored with
Baselines ==
    {[io |-> NoCounters, time |-> NoTime]} \cup [io : Traffic, time : Times]

\* "read_speed = 0", and, "if self._last_io and self._last_io_time:" and
\* "if time_diff > 0:", (io.read_bytes - self._last_io.read_bytes) / time_diff
read_speed(io, last_io, last_io_time, current_time) ==
    IF last_io # NoCounters /\ last_io_time # NoTime /\ current_time - last_io_time > 0
    THEN Rat(io - last_io, current_time - last_io_time)
    ELSE Rat(0, 1)

NoInput == [system |-> "none", outcome |-> "none", zones |-> <<>>, parsed |-> FALSE,
            free |-> 0, available |-> 0,
            last |-> [io |-> NoCounters, time |-> NoTime], io |-> 0, now |-> NoTime]

NoResult == [kind |-> "none", success |-> FALSE, warning |-> FALSE, pid |-> 0,
             keys |-> {}, real |-> {}, list |-> <<>>,
             available |-> FALSE, ratio |-> Rat(0, 1), speed |-> Rat(0, 1),
             baseline |-> [io |-> NoCounters, time |-> NoTime]]

\* no query in progress
IdleApi == [op |-> "none", pc |-> "none", pid |-> 0, force |-> FALSE, existed |-> FALSE,
            sort_by |-> "none", descending |-> FALSE,
            idx |-> 0, keys |-> {}, real |-> {}, denied |-> {},
            processes |-> <<>>, skipped |-> {},
            signal |-> "none", waited |-> "none", failure |-> "none",
            partitions |-> <<>>, input |-> NoInput,
            result |-> NoResult]

VARIABLES
    running,      \* running[m]   : self._running
    thread,       \* thread[m]    : self._thread (None or a Thread object)
    lock,         \* lock[m]      : owner of self._lock, None when free
    history,      \* history[m]   : the deques of the monitor
    rate,         \* rate[m]      : _last_io/_last_io_time, _last_counters/_last_time
    recorders,    \* recorders[t] : the Thread objects and where each is in _monitor_loop
    callers,      \* callers[c]   : what each caller thread is executing
    clock,        \* number of readings the recorders took so far (a monotonic clock)
    log,          \* log[m][s]    : everything ever appended to series s, in append order
    lastOp,       \* lastOp[m]    : the last lifecycle call completed on m
    scope,        \* the monitors the callers of this run work with
    mutated,      \* the appended objects a caller has modified in place
    net,          \* the OS byte counter and NetworkMonitor's rate state, as numbers
    samples,      \* samples[k]  : what NetworkMonitor computed at reading k
    api           \* the ProcessMonitor query the caller is in, and its result

vars == <<running, thread, lock, history, rate, recorders, callers, clock, log, lastOp, scope, mutated, net, samples, api>>

NoRecorder == [mon |-> "none", pc |-> "none", sleep |-> 0, tick |-> 0, idx |-> 0]

IdleCaller == [pc |-> "idle", mon |-> "none", wait |-> 0, target |-> None,
               res |-> EmptyHistory]

\* Thread.is_alive(): started, and neither returned from _monitor_loop
\* ("dead") nor ended by an exception ("crashed", "crashed_priming")
Alive(t) == recorders[t].pc \notin {"none", "dead", "crashed", "crashed_priming"}

AliveOf(m) == {t \in ThreadIds : recorders[t].mon = m /\ Alive(t)}

Created == {t \in ThreadIds : recorders[t].pc # "none"}

\* MainWindow owns the five monitors and drives them from one thread.  A
\* run works with one monitor, with the stateless queries, or with two
\* monitors side by side.
Scopes == {{m} : m \in Monitors \cup {Queries}} \cup {{"memory", "process"}}

Init ==
    /\ running = [m \in Monitors |-> FALSE]
    /\ thread = [m \in Monitors |-> None]
    /\ lock = [m \in Monitors |-> None]
    /\ history = [m \in Monitors |-> EmptyHistory]
    /\ rate = [m \in Monitors |-> NoRate]
    /\ recorders = [t \in ThreadIds |-> NoRecorder]
    /\ callers = [c \in Callers |-> IdleCaller]
    /\ clock = 0
    /\ log = [m \in Monitors |-> EmptyHistory]
    /\ lastOp = [m \in Monitors |-> "none"]
    /\ scope \in Scopes
    /\ mutated = {}
    /\ net = [counter |-> 0, last_counters |-> NoCounters, since_last_time |-> 0,
              current_speed |-> Rat(0, 1)]
    /\ samples = [k \in 1..MaxClock |-> NoSample]
    /\ api = IdleApi

\* ------------------------------------------------------------------
\* a list.append in place of the bounded deque: nothing is ever dropped
deque_append_unbounded(q, maxlen, x) == Append(q, x)

\* a full buffer that drops the newest element instead of the oldest
deque_append_drops_newest(q, maxlen, x) ==
    IF Len(q) >= maxlen /\ Len(q) > 0
    THEN Append(SubSeq(q, 1, Len(q) - 1), x)
    ELSE Append(q, x)

\* ------------------------------------------------------------------
\* collections.deque(maxlen=n).append: append on the right, and drop the
\* leftmost element when that makes the deque longer than maxlen.
deque_append(q, maxlen, x) ==
    LET r == Append(q, x)
    IN  IF Len(r) > maxlen THEN SubSeq(r, 2, Len(r)) ELSE r

\* ------------------------------------------------------------------
\* The recorder thread: _monitor_loop and _update_history.

\* a priming read that is handed to _update_history's appends as if it
\* were the reading of a tick
Prime_appended(t) ==
    LET m == recorders[t].mon IN
    /\ recorders[t].pc = "prime"
    /\ clock < MaxClock
    /\ clock' = clock + 1
    /\ rate' = IF m = "network"
               THEN [rate EXCEPT ![m] = [io |-> clock', time |-> clock']]
               ELSE rate
    /\ \E grown \in Traffic :
          net' = IF m = "network"
                 THEN [net EXCEPT !.counter = @ + grown,
                                  !.last_counters = net.counter + grown,
                                  !.since_last_time = 0]
                 ELSE net
    /\ recorders' = [recorders EXCEPT ![t].pc = "acquire", ![t].tick = clock']
    /\ UNCHANGED <<running, thread, lock, history, callers, log, lastOp, scope, mutated, samples, api>>

\* CPUMonitor / NetworkMonitor._monitor_loop, the lines before the while:
\* the priming read.  NetworkMonitor stores it as the rate baseline.  The
\* read is outside any try: when it raises, the thread ends.
Prime(t) ==
    LET m == recorders[t].mon IN
    /\ recorders[t].pc = "prime"
    /\ \/ /\ m = "cpu"
          /\ recorders' = [recorders EXCEPT ![t].pc = "loop"]
          /\ UNCHANGED <<rate, clock, net>>
       \/ /\ m = "network"
          /\ clock < MaxClock
          /\ clock' = clock + 1
          /\ rate' = [rate EXCEPT ![m] = [io |-> clock', time |-> clock']]
          /\ \E grown \in Traffic :
                net' = [net EXCEPT !.counter = @ + grown,
                                   !.last_counters = net.counter + grown,
                                   !.since_last_time = 0]
          /\ recorders' = [recorders EXCEPT ![t].pc = "loop"]
       \/ /\ recorders' = [recorders EXCEPT ![t].pc = "crashed_priming"]
          /\ UNCHANGED <<rate, clock, net>>
    /\ UNCHANGED <<running, thread, lock, history, callers, log, lastOp, scope, mutated, samples, api>>

\* "while self._running:"
LoopTest(t) ==
    LET m == recorders[t].mon IN
    /\ recorders[t].pc = "loop"
    /\ recorders' = [recorders EXCEPT
          ![t].pc = IF ~running[m] THEN "dead"
                    ELSE IF SleepsFirst(m) THEN "sleep" ELSE "query",
          ![t].sleep = IF running[m] /\ SleepsFirst(m) THEN update_interval(m) ELSE 0]
    /\ UNCHANGED <<running, thread, lock, history, rate, callers, clock, log, lastOp, scope, mutated, net, samples, api>>

\* time.sleep(update_interval) returns and the flag is read again: by
\* "if self._running:" in the cpu and network loops (and the while test
\* follows), by the while test in the others.
AfterSleep(t) ==
    LET m == recorders[t].mon IN
    /\ recorders[t].pc = "sleep"
    /\ recorders[t].sleep = 0
    /\ recorders' = [recorders EXCEPT
          ![t].pc = IF running[m] THEN "query"
                    ELSE IF SleepsFirst(m) THEN "loop" ELSE "dead"]
    /\ UNCHANGED <<running, thread, lock, history, rate, callers, clock, log, lastOp, scope, mutated, net, samples, api>>

\* _update_history up to the "with self._lock": the OS queries and
\* datetime.now().  The reading is identified by the clock value it is taken
\* at.  DiskMonitor.get_io_counters and NetworkMonitor._update_history
\* replace the rate baseline here, outside the lock.  The network baseline
\* has one writer at a time in the calls the repository makes and is
\* stored in one step; DiskMonitor.get_io_counters is also called by the
\* GUI thread, so its two stores are two steps: "self._last_io = io" here,
\* "self._last_io_time = current_time" in StoreTime.  (A failing
\* psutil.disk_io_counters, which get_io_counters turns into None, is not
\* told apart from a reading.)
Query(t) ==
    LET m == recorders[t].mon IN
    /\ recorders[t].pc = "query"
    /\ clock < MaxClock
    /\ clock' = clock + 1
    /\ rate' = IF ~HasRateState(m) THEN rate
               ELSE IF m = "network"
               THEN [rate EXCEPT ![m] = [io |-> clock', time |-> clock']]
               ELSE [rate EXCEPT ![m].io = clock']
    /\ recorders' = [recorders EXCEPT
          ![t].pc = IF m = "disk" THEN "store_time" ELSE "acquire",
          ![t].tick = clock']
    /\ IF m = "network"
       THEN \E grown \in Traffic :
              LET io == net.counter + grown
                  speed == compute_speed(io, net.last_counters, net.since_last_time)
              IN
              /\ net' = [net EXCEPT !.counter = io, !.last_counters = io,
                                    !.since_last_time = 0]
              /\ samples' = [samples EXCEPT ![clock'] =
                    [by |-> t, b0 |-> net.last_counters, b1 |-> io,
                     dt |-> net.since_last_time,
                     speed |-> speed, kbps |-> to_kbps(speed)]]
       ELSE UNCHANGED <<net, samples, api>>
    /\ UNCHANGED <<running, thread, lock, history, callers, log, lastOp, scope, mutated, api>>

\* DiskMonitor.get_io_counters in the recorder thread,
\* "self._last_io_time = current_time"
StoreTime(t) ==
    LET m == recorders[t].mon IN
    /\ recorders[t].pc = "store_time"
    /\ rate' = [rate EXCEPT ![m].time = recorders[t].tick]
    /\ recorders' = [recorders EXCEPT ![t].pc = "acquire"]
    /\ UNCHANGED <<running, thread, lock, history, callers, clock, log, lastOp, scope, mutated, net, samples, api>>

\* The primary OS query raises.  ProcessMonitor._monitor_loop has the query
\* inside try/except Exception: pass and goes on to time.sleep(1).  The other
\* four have no try around _update_history: the exception ends the thread
\* (for the disk monitor: psutil.disk_partitions raising in get_partitions).
QueryRaises(t) ==
    LET m == recorders[t].mon IN
    /\ recorders[t].pc = "query"
    /\ recorders' = [recorders EXCEPT
          ![t].pc = IF m = "process" THEN "sleep" ELSE "crashed",
          ![t].sleep = IF m = "process" THEN update_interval(m) ELSE 0]
    /\ UNCHANGED <<running, thread, lock, history, rate, callers, clock, log, lastOp, scope, mutated, net, samples, api>>

\* the lock a thread gives back when it leaves its with block
ReleasedBy(t, m) == IF lock[m] = t THEN [lock EXCEPT ![m] = None] ELSE lock

\* the state of recorder t of monitor m after it has appended to its k-th
\* deque: after the last one the with block ends and the loop goes on (to
\* the while test, or to time.sleep first)
Appended(t, m, k) ==
    LET last == k = Len(Series(m)) IN
    [recorders EXCEPT
        ![t].idx = IF last THEN 0 ELSE k + 1,
        ![t].tick = IF last THEN 0 ELSE @,
        ![t].pc = IF ~last THEN "append"
                  ELSE IF SleepsFirst(m) THEN "loop" ELSE "sleep",
        ![t].sleep = IF last /\ ~SleepsFirst(m) THEN update_interval(m) ELSE 0]

\* "with self._lock:" in _update_history / ProcessMonitor._monitor_loop,
\* and the first append under it.  NetworkMonitor first stores the speed it
\* computed in _current_upload_speed/_current_download_speed.
Acquire(t) ==
    LET m == recorders[t].mon
        s == Series(m)[1]
    IN
    /\ recorders[t].pc = "acquire"
    /\ lock[m] = None
    /\ lock' = [lock EXCEPT ![m] = t]
    /\ history' = [history EXCEPT ![m][s] = deque_append(@, max_samples(m), recorders[t].tick)]
    /\ log' = [log EXCEPT ![m][s] = Append(@, recorders[t].tick)]
    /\ recorders' = Appended(t, m, 1)
    /\ net' = IF m = "network"
              THEN [net EXCEPT !.current_speed = samples[recorders[t].tick].speed]
              ELSE net
    /\ UNCHANGED <<running, thread, rate, callers, clock, lastOp, scope, mutated, samples, api>>

\* each further deque.append of the with block
AppendStep(t) ==
    LET m == recorders[t].mon
        k == recorders[t].idx
        s == Series(m)[k]
    IN
    /\ recorders[t].pc = "append"
    /\ history' = [history EXCEPT ![m][s] = deque_append(@, max_samples(m), recorders[t].tick)]
    /\ log' = [log EXCEPT ![m][s] = Append(@, recorders[t].tick)]
    /\ lock' = IF k = Len(Series(m)) THEN ReleasedBy(t, m) ELSE lock
    /\ recorders' = Appended(t, m, k)
    /\ UNCHANGED <<running, thread, rate, callers, clock, lastOp, scope, mutated, net, samples, api>>

\* ------------------------------------------------------------------
\* One second passes: every time.sleep and every join in progress has one
\* second less to go.  A join whose timeout has run out returns before more
\* time passes.
Sleeping(t) == recorders[t].pc = "sleep" /\ recorders[t].sleep > 0

Waiting(c) == callers[c].pc = "joining" /\ callers[c].wait > 0

Tick ==
    /\ \E x \in ThreadIds \cup Callers :
          IF x \in ThreadIds THEN Sleeping(x) ELSE Waiting(x)
    /\ \A c \in Callers : callers[c].pc = "joining" => callers[c].wait > 0
    /\ recorders' = [t \in ThreadIds |->
          IF Sleeping(t) THEN [recorders[t] EXCEPT !.sleep = @ - 1] ELSE recorders[t]]
    /\ callers' = [c \in Callers |->
          IF Waiting(c) THEN [callers[c] EXCEPT !.wait = @ - 1] ELSE callers[c]]
    /\ net' = IF net.last_counters # NoCounters
              THEN [net EXCEPT !.since_last_time = @ + 1]
              ELSE net
    /\ UNCHANGED <<running, thread, lock, history, rate, clock, log, lastOp, scope, mutated, samples, api>>

\* ------------------------------------------------------------------
\* The caller thread.  Every call the repository makes on a monitor comes
\* from the Qt event loop thread: MainWindow.__init__, the QTimer callbacks
\* and closeEvent.

Done(m, op) == [lastOp EXCEPT ![m] = op]

Returned(c) == [callers EXCEPT ![c] = IdleCaller]

\* start_monitoring without its "if not self._running:" test
start_monitoring_unguarded(c, m) ==
    /\ callers[c].pc = "idle"
    /\ running' = [running EXCEPT ![m] = TRUE]
    /\ callers' = [callers EXCEPT ![c] = [IdleCaller EXCEPT !.pc = "start_thread", !.mon = m]]
    /\ UNCHANGED <<lastOp, thread, lock, history, rate, recorders, clock, log, scope, mutated, net, samples, api>>

\* start_monitoring: "if not self._running: self._running = True".  When the
\* flag is set the call returns at once.
start_monitoring(c, m) ==
    /\ callers[c].pc = "idle"
    /\ \/ /\ running[m]
          /\ callers' = [callers EXCEPT ![c] = [IdleCaller EXCEPT !.pc = "start_return", !.mon = m]]
          /\ UNCHANGED <<running, lastOp>>
       \/ /\ ~running[m]
          /\ running' = [running EXCEPT ![m] = TRUE]
          /\ callers' = [callers EXCEPT ![c] = [IdleCaller EXCEPT !.pc = "start_thread", !.mon = m]]
          /\ UNCHANGED lastOp
    /\ UNCHANGED <<thread, lock, history, rate, recorders, clock, log, scope, mutated, net, samples, api>>

\* "self._thread = Thread(target=self._monitor_loop, daemon=True)" and
\* "self._thread.start()"
StartThread(c) ==
    LET m == callers[c].mon
        t == Cardinality(Created) + 1
    IN
    /\ callers[c].pc = "start_thread"
    /\ t \in ThreadIds
    /\ thread' = [thread EXCEPT ![m] = t]
    /\ recorders' = [recorders EXCEPT ![t] =
          [NoRecorder EXCEPT !.mon = m, !.pc = IF SleepsFirst(m) THEN "prime" ELSE "loop"]]
    /\ callers' = Returned(c)
    /\ lastOp' = Done(m, "start")
    /\ UNCHANGED <<running, lock, history, rate, clock, log, scope, mutated, net, samples, api>>

\* start_monitoring returns without having done anything
StartReturn(c) ==
    LET m == callers[c].mon IN
    /\ callers[c].pc = "start_return"
    /\ callers' = Returned(c)
    /\ lastOp' = Done(m, "start")
    /\ UNCHANGED <<running, thread, lock, history, rate, recorders, clock, log, scope, mutated, net, samples, api>>

\* a stop_monitoring that clears the flag of every monitor
stop_monitoring_all(c, m) ==
    /\ callers[c].pc = "idle"
    /\ running' = [n \in Monitors |-> FALSE]
    /\ callers' = [callers EXCEPT ![c] = [IdleCaller EXCEPT !.pc = "stop_check", !.mon = m]]
    /\ UNCHANGED <<thread, lock, history, rate, recorders, clock, log, lastOp, scope, mutated, net, samples, api>>

\* stop_monitoring, "self._running = False"
stop_monitoring(c, m) ==
    /\ callers[c].pc = "idle"
    /\ running' = [running EXCEPT ![m] = FALSE]
    /\ callers' = [callers EXCEPT ![c] = [IdleCaller EXCEPT !.pc = "stop_check", !.mon = m]]
    /\ UNCHANGED <<thread, lock, history, rate, recorders, clock, log, lastOp, scope, mutated, net, samples, api>>

\* "if self._thread: self._thread.join(timeout=...)": with no thread handle
\* the call returns
StopCheck(c) ==
    LET m == callers[c].mon IN
    /\ callers[c].pc = "stop_check"
    /\ \/ /\ thread[m] = None
          /\ callers' = Returned(c)
          /\ lastOp' = Done(m, "stop")
       \/ /\ thread[m] # None
          /\ callers' = [callers EXCEPT ![c].pc = "joining", ![c].target = thread[m],
                                        ![c].wait = join_timeout(m)]
          /\ UNCHANGED lastOp
    /\ UNCHANGED <<running, thread, lock, history, rate, recorders, clock, log, scope, mutated, net, samples, api>>

\* is_alive() of the thread the caller joins
AliveTarget(c) == IF callers[c].target = None THEN FALSE ELSE Alive(callers[c].target)

\* Thread.join() with no timeout: over only when the thread has ended
JoinOver_no_timeout(c) == ~AliveTarget(c)

\* Thread.join(timeout) is over when the thread has ended or the timeout has
\* run out
JoinOver(c) == (~AliveTarget(c)) \/ (callers[c].wait = 0)

\* stop_monitoring without its "self._thread = None"
JoinReturn_keeps_handle(c) ==
    LET m == callers[c].mon IN
    /\ callers[c].pc = "joining"
    /\ JoinOver(c)
    /\ callers' = Returned(c)
    /\ lastOp' = Done(m, "stop")
    /\ UNCHANGED <<thread, running, lock, history, rate, recorders, clock, log, scope, mutated, net, samples, api>>

\* join returns, because the thread has ended or because the timeout has run
\* out, and "self._thread = None"
JoinReturn(c) ==
    LET m == callers[c].mon IN
    /\ callers[c].pc = "joining"
    /\ JoinOver(c)
    /\ thread' = [thread EXCEPT ![m] = None]
    /\ callers' = Returned(c)
    /\ lastOp' = Done(m, "stop")
    /\ UNCHANGED <<running, lock, history, rate, recorders, clock, log, scope, mutated, net, samples, api>>

\* get_history without "with self._lock:"
get_history_unlocked(c, m) ==
    /\ callers[c].pc = "idle"
    /\ callers' = [callers EXCEPT ![c] =
          [IdleCaller EXCEPT !.pc = "gh_return", !.mon = m, !.res = history[m]]]
    /\ UNCHANGED <<running, thread, lock, history, rate, recorders, clock, log, lastOp, scope, mutated, net, samples, api>>

\* get_history: the list(...) copies made under "with self._lock:"
get_history(c, m) ==
    /\ callers[c].pc = "idle"
    /\ lock[m] = None
    /\ callers' = [callers EXCEPT ![c] =
          [IdleCaller EXCEPT !.pc = "gh_return", !.mon = m, !.res = history[m]]]
    /\ UNCHANGED <<running, thread, lock, history, rate, recorders, clock, log, lastOp, scope, mutated, net, samples, api>>

\* The caller changes the dict it was given and is done with it.  Clearing
\* an outer list changes the caller's copy.  Changing an element in place
\* changes the object itself: for a shared series that is the object the
\* deque holds.
MutateResult(c) ==
    LET m == callers[c].mon
        res == callers[c].res
    IN
    /\ callers[c].pc = "gh_return"
    /\ \E i \in 1..Len(Series(m)) :
          LET s == Series(m)[i] IN
          /\ res[s] # <<>>
          /\ \/ UNCHANGED mutated
             \/ /\ Cardinality(mutated) < MaxMutations
                /\ \E k \in 1..Len(res[s]) :
                      mutated' = IF s \in SharedSeries(m)
                                 THEN mutated \cup {<<m, s, res[s][k]>>}
                                 ELSE mutated
    /\ callers' = [callers EXCEPT ![c].pc = "gh_mutated", ![c].res = EmptyHistory]
    /\ UNCHANGED <<running, thread, lock, history, rate, recorders, clock, log, lastOp, scope,
                   net, samples, api>>

\* get_history returns its dict to the widget
GetHistoryReturn(c) ==
    /\ callers[c].pc \in {"gh_return", "gh_mutated"}
    /\ callers' = Returned(c)
    /\ UNCHANGED <<running, thread, lock, history, rate, recorders, clock, log, lastOp, scope, mutated, net, samples, api>>

\* a get_current_stats that refreshes the network baseline as the disk
\* one does
get_current_stats_refreshes(c, m) ==
    /\ callers[c].pc = "idle"
    /\ \/ /\ m = "disk"
          /\ rate' = [rate EXCEPT ![m].io = c]
          /\ callers' = [callers EXCEPT ![c] = [IdleCaller EXCEPT !.pc = "store_time", !.mon = m]]
       \/ /\ m \in {"cpu", "memory", "network"}
          /\ m = "network" => lock[m] = None
          /\ callers' = Returned(c)
          /\ rate' = IF m = "network" THEN [rate EXCEPT ![m] = [io |-> c, time |-> c]] ELSE rate
    /\ UNCHANGED <<running, thread, lock, history, recorders, clock, log, lastOp, scope, mutated, net, samples, api>>

\* get_current_stats.  DiskMonitor's calls get_io_counters, which replaces
\* _last_io/_last_io_time in the calling thread, with no lock:
\* "self._last_io = io" here, "self._last_io_time = current_time" in
\* CallerStoreTime.  NetworkMonitor's reads the speeds under the lock; the
\* cpu and memory ones query the OS and touch nothing of the monitor;
\* ProcessMonitor has no get_current_stats.  A reading taken by the caller
\* is named by the caller (a negative number), one taken by a recorder by
\* its clock value.
get_current_stats(c, m) ==
    /\ callers[c].pc = "idle"
    /\ \/ /\ m = "disk"
          /\ rate' = [rate EXCEPT ![m].io = c]
          /\ callers' = [callers EXCEPT ![c] = [IdleCaller EXCEPT !.pc = "store_time", !.mon = m]]
       \/ /\ m \in {"cpu", "memory", "network"}
          /\ m = "network" => lock[m] = None
          /\ callers' = Returned(c)
          /\ UNCHANGED rate
    /\ UNCHANGED <<running, thread, lock, history, recorders, clock, log, lastOp, scope, mutated, net, samples, api>>

\* DiskMonitor.get_io_counters in the caller's thread,
\* "self._last_io_time = current_time", and get_current_stats returns
CallerStoreTime(c) ==
    LET m == callers[c].mon IN
    /\ callers[c].pc = "store_time"
    /\ rate' = [rate EXCEPT ![m].time = c]
    /\ callers' = Returned(c)
    /\ UNCHANGED <<running, thread, lock, history, recorders, clock, log, lastOp, scope, mutated, net, samples, api>>

\* ------------------------------------------------------------------
\* ProcessMonitor's queries.  They are called from the GUI thread
\* (process_widget.py) and run to their return before the next call.  What
\* the process does meanwhile (exits, becomes a zombie, denies access) shows
\* as the outcome of each psutil call.

MonitorVars == <<running, thread, lock, history, rate, recorders, clock, log, lastOp,
                 scope, mutated, net, samples>>

\* kill_process whose "except psutil.NoSuchProcess" is missing: the
\* exception reaches "except Exception"
kill_result_no_not_found(raised, pid) ==
    CASE raised = "none" ->
            [NoResult EXCEPT !.kind = "killed", !.success = TRUE, !.pid = pid]
      [] raised = "TimeoutExpired" ->
            [NoResult EXCEPT !.kind = "signalled", !.success = TRUE, !.warning = TRUE,
                             !.pid = pid]
      [] raised = "AccessDenied" -> [NoResult EXCEPT !.kind = "denied", !.pid = pid]
      [] OTHER -> [NoResult EXCEPT !.kind = "error", !.pid = pid]

\* kill_process that reports a timed-out wait as a failure
kill_result_timeout_fails(raised, pid) ==
    CASE raised = "none" ->
            [NoResult EXCEPT !.kind = "killed", !.success = TRUE, !.pid = pid]
      [] raised = "TimeoutExpired" -> [NoResult EXCEPT !.kind = "error", !.pid = pid]
      [] raised = "NoSuchProcess" -> [NoResult EXCEPT !.kind = "not_found", !.pid = pid]
      [] raised = "AccessDenied" -> [NoResult EXCEPT !.kind = "denied", !.pid = pid]
      [] OTHER -> [NoResult EXCEPT !.kind = "error", !.pid = pid]

\* the dict kill_process returns: after proc.wait returned, from "except
\* psutil.TimeoutExpired" around the wait, and from the three outer handlers
kill_result(raised, pid) ==
    CASE raised = "none" ->
            [NoResult EXCEPT !.kind = "killed", !.success = TRUE, !.pid = pid]
      [] raised = "TimeoutExpired" ->
            [NoResult EXCEPT !.kind = "signalled", !.success = TRUE, !.warning = TRUE,
                             !.pid = pid]
      [] raised = "NoSuchProcess" -> [NoResult EXCEPT !.kind = "not_found", !.pid = pid]
      [] raised = "AccessDenied" -> [NoResult EXCEPT !.kind = "denied", !.pid = pid]
      [] OTHER -> [NoResult EXCEPT !.kind = "error", !.pid = pid]

\* the call ends with an exception caught by a handler of kill_process
KillFails(raised) ==
    [api EXCEPT !.pc = "returned", !.failure = raised,
                !.result = kill_result(raised, api.pid)]

\* kill_process(pid, force): "proc = psutil.Process(pid)", which raises
\* NoSuchProcess for a pid that does not exist
kill_process(c, pid, force) ==
    /\ callers[c].pc = "idle"
    /\ api.op = "none"
    /\ Queries \in scope
    /\ \E exists \in BOOLEAN :
          api' = IF exists
                 THEN [IdleApi EXCEPT !.op = "kill_process", !.pid = pid, !.force = force,
                                      !.existed = TRUE, !.pc = "name"]
                 ELSE [IdleApi EXCEPT !.op = "kill_process", !.pid = pid, !.force = force,
                                      !.pc = "returned", !.failure = "NoSuchProcess",
                                      !.result = kill_result("NoSuchProcess", pid)]
    /\ UNCHANGED <<MonitorVars, callers>>

\* "process_name = proc.name()"
KillName ==
    /\ api.op = "kill_process" /\ api.pc = "name"
    /\ \E outcome \in Outcomes \cup {"Exception"} :
          api' = IF outcome = "ok" THEN [api EXCEPT !.pc = "signal"] ELSE KillFails(outcome)
    /\ UNCHANGED <<MonitorVars, callers>>

\* "proc.kill()" or "proc.terminate()"
KillSignal ==
    /\ api.op = "kill_process" /\ api.pc = "signal"
    /\ \E outcome \in Outcomes \cup {"Exception"} :
          api' = IF outcome = "ok"
                 THEN [api EXCEPT !.pc = "wait",
                                  !.signal = IF api.force THEN "SIGKILL" ELSE "SIGTERM"]
                 ELSE KillFails(outcome)
    /\ UNCHANGED <<MonitorVars, callers>>

\* "proc.wait(timeout=3)": the process exits in time, or TimeoutExpired, or
\* some other error
KillWait ==
    /\ api.op = "kill_process" /\ api.pc = "wait"
    /\ \E outcome \in {"exited", "TimeoutExpired", "Exception"} :
          api' = IF outcome = "exited"
                 THEN [api EXCEPT !.pc = "returned", !.waited = "exited",
                                  !.result = kill_result("none", api.pid)]
                 ELSE [KillFails(outcome) EXCEPT !.waited = outcome]
    /\ UNCHANGED <<MonitorVars, callers>>

\* sub-section handlers that catch NoSuchProcess as well
section_handler_catches_all(outcome) ==
    IF outcome = "ok" THEN "gathered" ELSE "defaulted"

\* what the try/except of a sub-section of get_process_by_pid does with the
\* outcome of its psutil calls: only AccessDenied is caught (the I/O
\* sub-section also catches AttributeError)
section_handler(outcome) ==
    CASE outcome = "ok" -> "gathered"
      [] outcome = "AccessDenied" -> "defaulted"
      [] OTHER -> "propagates"

\* "except psutil.NoSuchProcess: return None"
ReturnsNone ==
    [api EXCEPT !.pc = "returned", !.failure = "NoSuchProcess",
                !.result = [NoResult EXCEPT !.kind = "None"]]

\* get_process_by_pid(pid): "proc = psutil.Process(pid)"
get_process_by_pid(c, pid) ==
    /\ callers[c].pc = "idle"
    /\ api.op = "none"
    /\ Queries \in scope
    /\ \E exists \in BOOLEAN :
          api' = IF exists
                 THEN [IdleApi EXCEPT !.op = "get_process_by_pid", !.pid = pid,
                                      !.existed = TRUE, !.pc = "basic"]
                 ELSE [IdleApi EXCEPT !.op = "get_process_by_pid", !.pid = pid,
                                      !.pc = "returned", !.failure = "NoSuchProcess",
                                      !.result = [NoResult EXCEPT !.kind = "None"]]
    /\ UNCHANGED <<MonitorVars, callers>>

\* the "Información básica" dict: proc.name(), status(), username(),
\* create_time(), under the outer handlers only
GatherBasic ==
    /\ api.op = "get_process_by_pid" /\ api.pc = "basic"
    /\ \E outcome \in Outcomes :
          api' = CASE outcome = "ok" ->
                        [api EXCEPT !.pc = "section", !.idx = 1,
                                    !.keys = BasicKeys, !.real = BasicKeys]
                   [] outcome = "AccessDenied" ->
                        [api EXCEPT !.pc = "returned", !.failure = "AccessDenied",
                                    !.result = [NoResult EXCEPT !.kind = "denied",
                                                  !.pid = api.pid,
                                                  !.keys = {"pid", "error"}]]
                   [] OTHER -> ReturnsNone
    /\ UNCHANGED <<MonitorVars, callers>>

\* one sub-section; after the last one "return info"
GatherSection ==
    LET sec == Sections[api.idx]
        last == api.idx = Len(Sections)
        done(a) == IF last
                   THEN [a EXCEPT !.pc = "returned",
                                  !.result = [NoResult EXCEPT !.kind = "info", !.pid = api.pid,
                                                !.keys = a.keys, !.real = a.real]]
                   ELSE [a EXCEPT !.idx = @ + 1]
    IN
    /\ api.op = "get_process_by_pid" /\ api.pc = "section"
    /\ \E outcome \in Outcomes :
          api' = CASE section_handler(outcome) = "gathered" ->
                        done([api EXCEPT !.keys = @ \cup SectionKeys(sec),
                                         !.real = @ \cup SectionKeys(sec)])
                   [] section_handler(outcome) = "defaulted" ->
                        done([api EXCEPT !.keys = @ \cup DeniedKeys(sec),
                                         !.denied = @ \cup {sec},
                                         !.skipped = IF outcome = "NoSuchProcess"
                                                     THEN @ \cup {api.idx} ELSE @])
                   [] OTHER -> ReturnsNone
    /\ UNCHANGED <<MonitorVars, callers>>

\* a process_info that keeps I/O and command line whatever the calls did
process_info_undefaulted(p, row, io, cmd) ==
    [pid |-> p, cpu_percent |-> row.cpu_percent, name |-> row.name,
     io_ok |-> TRUE, cmd_ok |-> TRUE]

\* the process_info dict of get_process_list: disk_read/disk_write are 0
\* and cmdline is '' when io_counters() / cmdline() raised AccessDenied or
\* NoSuchProcess
process_info(p, row, io, cmd) ==
    [pid |-> p, cpu_percent |-> row.cpu_percent, name |-> row.name,
     io_ok |-> io = "ok", cmd_ok |-> cmd = "ok"]

\* get_process_list(sort_by, descending): "processes = []" and the start of
\* psutil.process_iter
get_process_list(c, sort_by, descending) ==
    /\ callers[c].pc = "idle"
    /\ api.op = "none"
    /\ Queries \in scope
    /\ api' = [IdleApi EXCEPT !.op = "get_process_list", !.pc = "iter", !.idx = 1,
                              !.sort_by = sort_by, !.descending = descending]
    /\ UNCHANGED <<MonitorVars, callers>>

\* one turn of the for loop.  A process gone before its fields are read is
\* passed over by process_iter; for the others proc.info is read, then
\* io_counters() and cmdline(), each in its own try.
Enumerate ==
    LET p == api.idx IN
    /\ api.op = "get_process_list" /\ api.pc = "iter"
    /\ p \in Pids
    /\ \/ api' = [api EXCEPT !.idx = @ + 1, !.skipped = @ \cup {p}]
       \/ \E row \in Rows, io \in Outcomes, cmd \in Outcomes :
             api' = [api EXCEPT !.idx = @ + 1,
                                !.processes = Append(@, process_info(p, row, io, cmd)),
                                !.denied = @ \cup (IF io = "ok" THEN {} ELSE {<<p, "io">>})
                                             \cup (IF cmd = "ok" THEN {} ELSE {<<p, "cmdline">>})]
    /\ UNCHANGED <<MonitorVars, callers>>

\* after the loop: the sort, and "return processes".  (The list is also
\* stored in _cached_processes under the lock; nothing reads it.)
SortAndReturn ==
    /\ api.op = "get_process_list" /\ api.pc = "iter"
    /\ api.idx \notin Pids
    /\ api' = [api EXCEPT !.pc = "returned",
                          !.result = [NoResult EXCEPT !.kind = "list",
                             !.list = sort_processes(api.processes, api.sort_by,
                                                     api.descending)]]
    /\ UNCHANGED <<MonitorVars, callers>>

\* ------------------------------------------------------------------
\* DiskMonitor.get_partitions: "partitions = []" and
\* "psutil.disk_partitions(all=False)"
get_partitions(c) ==
    /\ callers[c].pc = "idle"
    /\ api.op = "none"
    /\ Queries \in scope
    /\ \E enumerated \in PartitionLists :
          api' = [IdleApi EXCEPT !.op = "get_partitions", !.partitions = enumerated,
                                 !.idx = 1,
                                 !.pc = IF enumerated = <<>> THEN "returned" ELSE "usage",
                                 !.result = [NoResult EXCEPT !.kind = "partitions"]]
    /\ UNCHANGED <<MonitorVars, callers>>

\* one partition: psutil.disk_usage(partition.mountpoint) and the append
\* of the try or of the handler; after the last one "return partitions"
PartitionUsage ==
    /\ api.op = "get_partitions" /\ api.pc = "usage"
    /\ \E outcome \in UsageOutcomes :
          api' = [api EXCEPT
             !.result.list = partition_entry(@, api.partitions[api.idx], outcome),
             !.denied = IF outcome = "ok" THEN @ ELSE @ \cup {api.idx},
             !.idx = @ + 1,
             !.pc = IF api.idx = Len(api.partitions) THEN "returned" ELSE "usage"]
    /\ UNCHANGED <<MonitorVars, callers>>

\* MemoryMonitor.get_memory_fragmentation.  On Linux /proc/buddyinfo is
\* read and parsed, or open() raises FileNotFoundError or PermissionError;
\* on Darwin vm_stat is run and parsed, or fails; on any other system, and
\* after a failure, 'available' is still False and the estimate from
\* psutil.virtual_memory() is used.
get_memory_fragmentation(c) ==
    /\ callers[c].pc = "idle"
    /\ api.op = "none"
    /\ Queries \in scope
    /\ \E input \in
            [system : {"Linux"}, outcome : {"ok"}, zones : ZoneLists, parsed : {FALSE},
             free : {0}, available : {0},
             last : {NoInput.last}, io : {0}, now : {NoTime}]
            \cup
            [system : {"Darwin"}, outcome : {"ok"}, zones : {<<>>}, parsed : BOOLEAN,
             free : 0..MaxMem, available : 0..MaxMem,
             last : {NoInput.last}, io : {0}, now : {NoTime}]
            \cup
            [system : {"Linux", "Darwin", "Windows"},
             outcome : {"FileNotFoundError", "PermissionError", "failed", "none"},
             zones : {<<>>}, parsed : {FALSE},
             free : 0..MaxMem, available : 0..MaxMem,
             last : {NoInput.last}, io : {0}, now : {NoTime}] :
          /\ input.system = "Linux" =>
                input.outcome \in {"ok", "FileNotFoundError", "PermissionError"}
          /\ input.system = "Darwin" => input.outcome \in {"ok", "failed"}
          /\ input.system = "Windows" => input.outcome = "none"
          /\ api' = [IdleApi EXCEPT
                !.op = "get_memory_fragmentation", !.pc = "returned", !.input = input,
                !.result = [NoResult EXCEPT
                   !.kind = "fragmentation",
                   !.available = input.outcome = "ok",
                   !.ratio = IF input.outcome # "ok"
                             THEN fallback_ratio(input.free, input.available)
                             ELSE IF input.system = "Linux"
                             THEN buddyinfo_ratio(input.zones)
                             ELSE vm_stat_ratio(input.parsed, input.free,
                                                input.available)]]
    /\ UNCHANGED <<MonitorVars, callers>>

\* DiskMonitor.get_io_counters on a monitor whose baseline is last:
\* psutil.disk_io_counters() gives a reading at time.time() = now, gives
\* None, or raises (the "except Exception: pass").  The OS counter never
\* goes down; the clock may stand still or go back.
get_io_counters(c) ==
    /\ callers[c].pc = "idle"
    /\ api.op = "none"
    /\ Queries \in scope
    /\ \E last \in Baselines, grown \in Traffic, now \in Times,
          outcome \in {"ok", "None", "Exception"} :
          LET io == IF last.io = NoCounters THEN grown ELSE last.io + grown
              input == [NoInput EXCEPT !.system = "disk", !.outcome = outcome,
                                       !.last = last, !.io = io, !.now = now]
          IN
          api' = [IdleApi EXCEPT
             !.op = "get_io_counters", !.pc = "returned", !.input = input,
             !.result = IF outcome = "ok"
                        THEN [NoResult EXCEPT
                                !.kind = "io",
                                !.speed = read_speed(io, last.io, last.time, now),
                                !.baseline = [io |-> io, time |-> now]]
                        ELSE [NoResult EXCEPT !.kind = "None", !.baseline = last]]
    /\ UNCHANGED <<MonitorVars, callers>>

\* NetworkMonitor._update_history up to its "with self._lock:", on a
\* monitor whose baseline is last: the speed of the reading and the new
\* baseline
update_history_speed(c) ==
    /\ callers[c].pc = "idle"
    /\ api.op = "none"
    /\ Queries \in scope
    /\ \E last \in Baselines, grown \in Traffic, now \in Times :
          LET io == IF last.io = NoCounters THEN grown ELSE last.io + grown
              input == [NoInput EXCEPT !.system = "network", !.outcome = "ok",
                                       !.last = last, !.io = io, !.now = now]
          IN
          api' = [IdleApi EXCEPT
             !.op = "update_history", !.pc = "returned", !.input = input,
             !.result = [NoResult EXCEPT
                           !.kind = "io",
                           !.speed = compute_speed(io, last.io, now - last.time),
                           !.baseline = [io |-> io, time |-> now]]]
    /\ UNCHANGED <<MonitorVars, callers>>

\* the widget has the result and the GUI thread goes on
QueryReturns ==
    /\ api.pc = "returned"
    /\ api' = IdleApi
    /\ UNCHANGED <<MonitorVars, callers>>

\* ------------------------------------------------------------------
RecorderStep(t) ==
    \/ Prime(t)
    \/ LoopTest(t)
    \/ AfterSleep(t)
    \/ Query(t)
    \/ QueryRaises(t)
    \/ StoreTime(t)
    \/ Acquire(t)
    \/ AppendStep(t)

\* the caller going on with the call it is in
CallerStep(c) ==
    \/ StartThread(c)
    \/ StartReturn(c)
    \/ StopCheck(c)
    \/ JoinReturn(c)
    \/ MutateResult(c)
    \/ GetHistoryReturn(c)
    \/ CallerStoreTime(c)

\* the caller making a new call
CallerCall(c) ==
    \E m \in scope \cap Monitors :
        \/ start_monitoring(c, m)
        \/ stop_monitoring(c, m)
        \/ get_history(c, m)
        \/ get_current_stats(c, m)

\* the caller making a query on the process table
QueryCall(c) ==
    \/ \E pid \in Pids, force \in BOOLEAN : kill_process(c, pid, force)
    \/ \E pid \in Pids : get_process_by_pid(c, pid)
    \/ \E sort_by \in SortKeys, descending \in BOOLEAN :
          get_process_list(c, sort_by, descending)
    \/ get_partitions(c)
    \/ get_memory_fragmentation(c)
    \/ get_io_counters(c)
    \/ update_history_speed(c)

\* the query going on
QueryStep ==
    \/ KillName
    \/ KillSignal
    \/ KillWait
    \/ GatherBasic
    \/ GatherSection
    \/ Enumerate
    \/ SortAndReturn
    \/ PartitionUsage
    \/ QueryReturns

Next ==
    \/ \E t \in ThreadIds : RecorderStep(t)
    \/ \E c \in Callers : CallerStep(c)
    \/ \E c \in Callers : CallerCall(c)
    \/ \E c \in Callers : QueryCall(c)
    \/ QueryStep
    \/ Tick

Spec == Init /\ [][Next]_vars

\* The same, with what the scheduler guarantees: time passes, and the
\* caller thread goes on with the call it is in.  Nothing is assumed of the
\* recorder threads.
LiveSpec ==
    /\ Spec
    /\ WF_vars(Tick)
    /\ \A c \in Callers : WF_vars(CallerStep(c))

\* ------------------------------------------------------------------
\* Properties.

\* the last n elements of q
LastN(q, n) == IF Len(q) > n THEN SubSeq(q, Len(q) - n + 1, Len(q)) ELSE q

\* every deque of monitor m in h is as long as its timestamps
Aligned(m, h) ==
    \A i \in 1..Len(Series(m)) : Len(h[Series(m)[i]]) = Len(h.timestamps)

\* every deque of monitor m in h holds, index by index, the same ticks
SameTicks(m, h) ==
    \A i \in 1..Len(Series(m)) : h[Series(m)[i]] = h.timestamps

\* C1: at most one recorder thread of a monitor is alive at any time.
C1_AtMostOneRecorder ==
    \A m \in Monitors : Cardinality(AliveOf(m)) <= 1

\* C2: every get_history() result has all its series as long as its
\* timestamps, and so have the deques whenever no recorder is inside its
\* with block.
C2_IndexAligned ==
    /\ \A c \in Callers :
          callers[c].pc = "gh_return" => Aligned(callers[c].mon, callers[c].res)
    /\ \A m \in Monitors : lock[m] = None => Aligned(m, history[m])

\* a get_history() result is in the caller's hands while a recorder of the
\* same monitor is between two appends of one tick
C2_Witness ==
    \E c \in Callers, t \in ThreadIds :
        /\ callers[c].pc = "gh_return"
        /\ recorders[t].mon = callers[c].mon
        /\ recorders[t].pc = "append"
        /\ Len(callers[c].res.timestamps) > 0

\* C3: when stop_monitoring returns from its join, the recorder thread it
\* joined is no longer alive.
C3_StopWaitsForExit ==
    [][\A c \in Callers : JoinReturn(c) => ~AliveTarget(c)]_vars

\* C4: a recorder whose OS query raises stays alive: no recorder thread is
\* ever ended by the exception of a tick.
C4_FailedTickSwallowed ==
    \A t \in ThreadIds : recorders[t].pc # "crashed"

\* C5: no history deque, and no series of a get_history() result, is longer
\* than floor(history_duration / update_interval) (the process monitor's
\* fixed maxlen).
C5_HistoryBounded ==
    /\ \A m \in Monitors : \A i \in 1..Len(Series(m)) :
          Len(history[m][Series(m)[i]]) <=
             (IF m = "process" THEN ProcessMaxLen
              ELSE history_duration(m) \div update_interval(m))
    /\ \A c \in Callers : \A i \in 1..3 :
          callers[c].pc = "gh_return" =>
             Len(callers[c].res[Series("cpu")[i]]) <= max_samples(callers[c].mon)

\* more ticks were appended than the deque holds, and the caller reads it
C5_Witness ==
    \E c \in Callers :
        /\ callers[c].pc = "gh_return"
        /\ Len(log[callers[c].mon].timestamps) > max_samples(callers[c].mon)
        /\ Len(callers[c].res.timestamps) = max_samples(callers[c].mon)

\* C6: every deque holds exactly the last max_samples values appended to it,
\* in the order they were appended, and outside a recorder's with block (and
\* in every get_history() result) the same index of every series and of
\* timestamps holds the same tick.
C6_FifoEviction ==
    /\ \A m \in Monitors : \A i \in 1..Len(Series(m)) :
          history[m][Series(m)[i]] = LastN(log[m][Series(m)[i]], max_samples(m))
    /\ \A m \in Monitors : lock[m] = None => SameTicks(m, history[m])
    /\ \A c \in Callers :
          callers[c].pc = "gh_return" => SameTicks(callers[c].mon, callers[c].res)

\* a deque of two or more places has dropped its oldest tick
C6_Witness ==
    \E m \in Monitors :
        /\ lock[m] = None
        /\ max_samples(m) >= 2
        /\ Len(log[m].timestamps) > max_samples(m)
        /\ Len(history[m].first) = max_samples(m)
        /\ history[m].first[1] # log[m].first[1]

\* C7: a start_monitoring() call that follows a start_monitoring() with no
\* stop_monitoring() in between changes nothing: no flag, no thread handle,
\* no thread, no deque; the handle still names the recorder.
C7_SecondStartChangesNothing ==
    [][\A c \in Callers : \A m \in Monitors :
          /\ (lastOp[m] = "start" /\ start_monitoring(c, m)) =>
                /\ callers'[c].pc = "start_return"
                /\ thread[m] # None
                /\ UNCHANGED <<running, thread, recorders, history, rate, lock>>
          /\ (callers[c].mon = m /\ StartReturn(c)) =>
                UNCHANGED <<running, thread, recorders, history, rate, lock>>
      ]_vars

\* the second of two start_monitoring() calls is returning, and one recorder
\* thread of the monitor is alive
C7_Witness ==
    \E c \in Callers :
        /\ callers[c].pc = "start_return"
        /\ lastOp[callers[c].mon] = "start"
        /\ Cardinality(AliveOf(callers[c].mon)) = 1

\* C8: stop_monitoring() on a monitor that was never started, or whose last
\* call was a stop_monitoring(), joins nothing and leaves the flag false,
\* the handle None and the deques as they were.
C8_StopWhenStopped ==
    [][\A c \in Callers : \A m \in Monitors :
          /\ (lastOp[m] \in {"none", "stop"} /\ stop_monitoring(c, m)) =>
                /\ ~running'[m]
                /\ thread'[m] = None
                /\ history' = history
          /\ (lastOp[m] \in {"none", "stop"} /\ callers[c].mon = m /\ StopCheck(c)) =>
                /\ callers'[c].pc = "idle"
                /\ ~running'[m]
                /\ thread'[m] = None
                /\ history' = history
      ]_vars

\* a second stop_monitoring() is under way on a monitor that has history
C8_Witness ==
    \E c \in Callers :
        /\ callers[c].pc = "stop_check"
        /\ lastOp[callers[c].mon] = "stop"
        /\ history[callers[c].mon].timestamps # <<>>

\* C9: stop_monitoring() always returns, and never waits in join for more
\* than 2 seconds, whatever the recorder does.
C9_StopAlwaysReturns ==
    /\ [](\A c \in Callers : callers[c].wait <= 2)
    /\ \A c \in Callers :
          (callers[c].pc \in {"stop_check", "joining"}) ~> (callers[c].pc = "idle")

\* the join has used up its timeout and the recorder is still alive
C9_Witness ==
    \E c \in Callers :
        /\ callers[c].pc = "joining"
        /\ callers[c].wait = 0
        /\ AliveTarget(c)

\* C10: the deques and the rate baseline of a monitor change only in steps
\* of that monitor's recorder threads.
C10_OnlyRecorderWrites ==
    [][\A m \in Monitors :
          (history'[m] # history[m] \/ rate'[m] # rate[m]) =>
             /\ callers' = callers
             /\ \E t \in ThreadIds : recorders[t].mon = m /\ recorders'[t] # recorders[t]
      ]_vars

\* q is in non-decreasing order
Chronological(q) == \A i \in 1..Len(q) : \A j \in i..Len(q) : q[i] <= q[j]

\* C13: the timestamps deque of every monitor, and of every get_history()
\* result, is in non-decreasing order of the clock values the timestamps
\* were taken at.
C13_TimestampsChronological ==
    /\ \A m \in Monitors : Chronological(history[m].timestamps)
    /\ \A c \in Callers :
          callers[c].pc = "gh_return" => Chronological(callers[c].res.timestamps)

\* C14: whatever a caller does to a get_history() result leaves every deque
\* of the monitor, and every element the deques hold, as it was.
C14_DefensiveCopy ==
    [][\A c \in Callers : MutateResult(c) =>
          \A m \in Monitors : \A i \in 1..Len(Series(m)) :
              LET s == Series(m)[i] IN
              /\ history'[m][s] = history[m][s]
              /\ \A k \in 1..Len(history[m][s]) :
                    (<<m, s, history[m][s][k]>> \in mutated') =
                    (<<m, s, history[m][s][k]>> \in mutated)
      ]_vars

\* the NetworkMonitor recorder threads, and the one started last
NetRecorders == {t \in ThreadIds : recorders[t].mon = "network"}

Newest(T) == CHOOSE t \in T : \A u \in T : u <= t

\* the readings recorder t has taken in _update_history
SamplesOf(t) == {k \in 1..MaxClock : samples[k].by = t}

\* C11: while the NetworkMonitor recorder started last has taken no reading
\* in _update_history the reported speed is 0, and the first sample a
\* recorder appends is 0; no sample is negative.
C11_FirstSpeedIsZero ==
    /\ NetRecorders # {} =>
          (SamplesOf(Newest(NetRecorders)) = {} => RatEq(net.current_speed, Rat(0, 1)))
    /\ \A t \in NetRecorders : \A k \in SamplesOf(t) :
          /\ (\A j \in SamplesOf(t) : k <= j) => RatEq(samples[k].kbps, Rat(0, 1))
          /\ samples[k].kbps.num >= 0 /\ samples[k].kbps.den > 0

\* C12: for a reading (b1, t1) that follows the baseline (b0, t0) with
\* b1 >= b0 and t1 > t0 the computed speed is (b1 - b0) / (t1 - t0), and the
\* value appended to the history for it is that speed divided by 1024.
C12_SpeedFormula ==
    /\ \A k \in 1..MaxClock :
          (samples[k].by # None /\ samples[k].b0 # NoCounters
              /\ samples[k].b1 >= samples[k].b0 /\ samples[k].dt > 0) =>
             /\ RatEq(samples[k].speed, Rat(samples[k].b1 - samples[k].b0, samples[k].dt))
             /\ samples[k].kbps.num * samples[k].speed.den * 1024 =
                   samples[k].speed.num * samples[k].kbps.den
    /\ \A i \in 1..Len(history["network"].first) :
          samples[history["network"].first[i]].by # None

\* 102400 more bytes read one second after the baseline are in the history
\* as 100 KB/s
C12_Witness ==
    \E i \in 1..Len(history["network"].first) :
        LET k == history["network"].first[i] IN
        /\ samples[k].b1 - samples[k].b0 = 102400
        /\ samples[k].dt = 1
        /\ RatEq(samples[k].kbps, Rat(100, 1))

\* a kill_process / get_process_by_pid / get_process_list call has returned
Returns(op) == api.op = op /\ api.pc = "returned"

\* C15: kill_process on a pid that does not exist returns success = false
\* with the not-found message, whatever force is, and sends no signal.
C15_KillNonexistent ==
    (api.op = "kill_process" /\ ~api.existed) =>
        /\ api.pc = "returned"
        /\ api.result.kind = "not_found"
        /\ ~api.result.success
        /\ api.result.pid = api.pid
        /\ api.signal = "none"

\* kill_process(pid, force=True) on a pid that does not exist has returned
C15_Witness ==
    Returns("kill_process") /\ ~api.existed /\ api.force

\* C16: kill_process returns one of three outcomes: success without warning
\* exactly when the signal was sent and the wait saw the process exit,
\* success with a warning exactly when the signal was sent and the wait timed
\* out, failure exactly when NoSuchProcess, AccessDenied or another
\* exception was raised.
C16_KillOutcomes ==
    Returns("kill_process") =>
        /\ api.result.kind \in {"killed", "signalled", "not_found", "denied", "error"}
        /\ (api.result.success /\ ~api.result.warning) <=>
              (api.signal # "none" /\ api.waited = "exited")
        /\ (api.result.success /\ api.result.warning) <=>
              (api.signal # "none" /\ api.waited = "TimeoutExpired")
        /\ (~api.result.success) <=>
              (api.failure \in {"NoSuchProcess", "AccessDenied", "Exception"})
        /\ (~api.result.success) => ~api.result.warning

\* the signal was sent and the wait timed out
C16_Witness ==
    /\ Returns("kill_process")
    /\ api.signal = "SIGTERM"
    /\ api.waited = "TimeoutExpired"
    /\ api.result.warning

\* C17: get_process_by_pid returns None whenever the process was found gone
\* at the lookup, in the basic fields or in a sub-section; what it returns
\* otherwise has every sub-section gathered.
C17_VanishedGivesNone ==
    Returns("get_process_by_pid") =>
        /\ (api.failure = "NoSuchProcess" \/ api.skipped # {}) => api.result.kind = "None"
        /\ api.result.kind \in {"None", "denied", "info"}
        /\ api.result.kind = "info" => api.idx = Len(Sections)

\* the process went away in a sub-section after the first ones were gathered
C17_Witness ==
    /\ Returns("get_process_by_pid")
    /\ api.idx >= 3
    /\ api.failure = "NoSuchProcess"
    /\ api.result.kind = "None"

\* the keys of the dict an unrestricted get_process_by_pid returns
AllKeys == BasicKeys \cup UNION {SectionKeys(Sections[i]) : i \in 1..Len(Sections)}

\* C18: with access denied in some sub-sections get_process_by_pid returns
\* a dict with the keys of an unrestricted call, real values everywhere but
\* in the denied sub-sections; with access denied on the basic fields it
\* returns the {pid, error} marker.
C18_SectionsDegrade ==
    Returns("get_process_by_pid") =>
        /\ api.result.kind = "info" =>
              /\ api.result.keys = AllKeys
              /\ api.result.real =
                    AllKeys \ UNION {SectionKeys(sec) : sec \in api.denied}
        /\ api.failure = "AccessDenied" =>
              /\ api.result.kind = "denied"
              /\ api.result.keys = {"pid", "error"}

\* x comes no later than y in the requested order
InOrder(x, y, sort_by, descending) ==
    LET kx == IF sort_by = "name" THEN lower(x.name) ELSE <<x[sort_by]>>
        ky == IF sort_by = "name" THEN lower(y.name) ELSE <<y[sort_by]>>
    IN  IF descending THEN ~StrLess(kx, ky) ELSE ~StrLess(ky, kx)

\* C19: get_process_list returns the enumerated processes, each once, in
\* the order of the requested key: non-increasing when descending,
\* non-decreasing otherwise, names compared lower-cased.
C19_ListSorted ==
    Returns("get_process_list") =>
        LET l == api.result.list IN
        /\ Len(l) = Len(api.processes)
        /\ {l[i] : i \in 1..Len(l)} = {api.processes[i] : i \in 1..Len(api.processes)}
        /\ api.sort_by \in {"cpu_percent", "pid", "name"} =>
              \A i \in 1..Len(l) : \A j \in i..Len(l) :
                  InOrder(l[i], l[j], api.sort_by, api.descending)

\* cpu% values [5, 50, 10] come back as [50, 10, 5]
C19_Witness ==
    /\ Returns("get_process_list")
    /\ api.sort_by = "cpu_percent" /\ api.descending
    /\ [i \in 1..Len(api.processes) |-> api.processes[i].cpu_percent] = <<5, 50, 10>>
    /\ [i \in 1..Len(api.result.list) |-> api.result.list[i].cpu_percent] = <<50, 10, 5>>

\* C20: get_process_list returns a list whatever the processes do: every
\* process is either passed over or listed once, and a listed process
\* whose io_counters() or cmdline() failed has that field defaulted.
C20_EnumerationSurvives ==
    /\ api.op = "get_process_list" => api.result.kind \in {"none", "list"}
    /\ Returns("get_process_list") =>
          LET l == api.result.list IN
          /\ api.result.kind = "list"
          /\ \A p \in Pids :
                (p \in api.skipped) # (\E i \in 1..Len(l) : l[i].pid = p)
          /\ \A i \in 1..Len(l) : \A j \in 1..Len(l) : l[i].pid = l[j].pid => i = j
          /\ \A i \in 1..Len(l) :
                /\ l[i].io_ok = (<<l[i].pid, "io">> \notin api.denied)
                /\ l[i].cmd_ok = (<<l[i].pid, "cmdline">> \notin api.denied)

\* one process was passed over, one is listed with its I/O defaulted, one
\* is listed in full
C20_Witness ==
    /\ Returns("get_process_list")
    /\ api.skipped # {}
    /\ \E i, j \in 1..Len(api.result.list) :
          /\ ~api.result.list[i].io_ok
          /\ api.result.list[j].io_ok /\ api.result.list[j].cmd_ok

\* C24: in every monitor a recorder takes a snapshot only when a full
\* time.sleep(update_interval) has just ended and the running flag, read
\* again, is set: a recorder goes to its OS query from the end of a sleep
\* and from nowhere else.
C24_SleepsBeforeSnapshot ==
    [][\A t \in ThreadIds :
          (recorders[t].pc # "query" /\ recorders'[t].pc = "query")
             => /\ recorders[t].pc = "sleep"
                /\ recorders[t].sleep = 0
                /\ running[recorders[t].mon]]_vars

\* a call of start_monitoring on m has set the flag and not yet started
\* the thread
Starting(m) ==
    \E c \in Callers : callers[c].pc = "start_thread" /\ callers[c].mon = m

\* C27: whenever the running flag of a monitor is set (and start_monitoring
\* is not between setting it and starting the thread), a recorder thread of
\* that monitor is alive.
C27_RunningHasRecorder ==
    \A m \in Monitors : (running[m] /\ ~Starting(m)) => AliveOf(m) # {}

\* C28: from the return of stop_monitoring until the next start_monitoring
\* call, no history deque of that monitor changes.
C28_QuietAfterStop ==
    [][\A m \in Monitors :
          (lastOp[m] = "stop" /\ ~running[m]) => history'[m] = history[m]]_vars

\* the recorders of m that hold a reading they have not yet appended to
\* timestamps
InFlight(m) == {t \in ThreadIds : recorders[t].mon = m /\ recorders[t].tick # 0}

\* the readings the recorders of m took in _update_history, after a sleep.
\* Only the network recorder's priming read takes a reading of the clock.
PostSleepReadings(m) ==
    IF m = "network" THEN {k \in 1..MaxClock : samples[k].by # None}
    ELSE 1..clock

\* C26: the priming read of the cpu and network recorders appends nothing
\* and is not kept as the reading of a tick, and the entries appended to the
\* history are as many as the post-sleep readings taken, less those a
\* recorder still has to append.
C26_PrimingNotAppended ==
    /\ [](\A m \in scope \cap {"cpu", "network"} :
            Len(log[m].timestamps) + Cardinality(InFlight(m))
               = Cardinality(PostSleepReadings(m)))
    /\ [][\A t \in ThreadIds :
            (recorders[t].pc = "prime" /\ recorders'[t] # recorders[t]) =>
               /\ history' = history
               /\ log' = log
               /\ recorders'[t].tick = 0
               /\ recorders'[t].pc \in {"loop", "crashed_priming"}]_vars

\* a network recorder has taken its priming read and has appended one tick
\* after it: one entry from two readings
C26_Witness ==
    /\ Len(log["network"].timestamps) = 1
    /\ InFlight("network") = {}
    /\ clock = 2
    /\ rate["network"].io = 2

\* a thread is between the two stores of DiskMonitor.get_io_counters
MidStore ==
    \/ \E t \in ThreadIds : recorders[t].mon = "disk" /\ recorders[t].pc = "store_time"
    \/ \E c \in Callers : callers[c].mon = "disk" /\ callers[c].pc = "store_time"

\* C29: whenever no thread is between the two stores of get_io_counters,
\* _last_io and _last_io_time of the disk monitor come from the same
\* reading.
C29_BaselineIsOneReading ==
    ~MidStore => rate["disk"].io = rate["disk"].time

\* C25: a get_history or get_current_stats call, from its first step to its
\* return, changes no deque, flag, thread handle or lock of any monitor and
\* nothing of the network monitor's rate state; the only thing such a call
\* writes is the disk monitor's baseline, with the reading the caller took.
C25_ReadsChangeOnlyBaseline ==
    [][\A c \in Callers, m \in Monitors :
          (\/ get_history(c, m)
           \/ get_current_stats(c, m)
           \/ MutateResult(c) \/ GetHistoryReturn(c) \/ CallerStoreTime(c))
          => /\ history' = history
             /\ log' = log
             /\ running' = running
             /\ thread' = thread
             /\ lock' = lock
             /\ net' = net
             /\ \A n \in Monitors : n # "disk" => rate'[n] = rate[n]
             /\ rate'["disk"] # rate["disk"] =>
                   \/ rate'["disk"] = [rate["disk"] EXCEPT !.io = c]
                   \/ rate'["disk"] = [rate["disk"] EXCEPT !.time = c]]_vars

\* get_current_stats of the disk monitor has replaced a baseline the
\* recorder had stored, and a get_history result is in the caller's hands
\* with the deques holding a tick
C25_Witness ==
    /\ rate["disk"] = [io |-> GuiThread, time |-> GuiThread]
    /\ Len(log["disk"].timestamps) >= 1
    /\ \E c \in Callers : callers[c].pc = "gh_return" /\ callers[c].res.timestamps # <<>>

\* C22: get_partitions returns one entry per enumerated partition, in the
\* order of the enumeration; the entry of a partition whose disk_usage
\* raised PermissionError or OSError has 'error' and no usage field, every
\* other entry has the usage fields and no 'error'.
C22_EveryPartitionListed ==
    Returns("get_partitions") =>
        /\ Len(api.result.list) = Len(api.partitions)
        /\ \A i \in 1..Len(api.partitions) :
              /\ api.result.list[i].device = api.partitions[i]
              /\ api.result.list[i].keys =
                    PartitionKeys \cup (IF i \in api.denied THEN {"error"} ELSE UsageKeys)

\* two partitions were enumerated, the usage query of the first one failed
\* and that of the second one did not
C22_Witness ==
    /\ Returns("get_partitions")
    /\ Len(api.partitions) = 2
    /\ api.denied = {1}
    /\ "error" \in api.result.list[1].keys
    /\ "total" \in api.result.list[2].keys

\* C23: the fragmentation_ratio get_memory_fragmentation returns is a
\* number from 0 to 1.
C23_RatioInUnitInterval ==
    Returns("get_memory_fragmentation") =>
        /\ api.result.ratio.den > 0
        /\ 0 <= api.result.ratio.num
        /\ api.result.ratio.num <= api.result.ratio.den

\* the time between the baseline and the reading of a rate computation
Elapsed == api.input.now - api.input.last.time

\* C30: a rate computation never divides by zero; a reading taken when no
\* time, or less than none, has passed since the baseline has speed 0; and
\* every reading replaces the baseline, whatever the time that has passed.
\* For the disk monitor and for the network monitor, and for every reading
\* a network recorder took.
C30_NoDivisionByZero ==
    /\ ((Returns("get_io_counters") \/ Returns("update_history"))
           /\ api.input.outcome = "ok") =>
          /\ api.result.speed.den > 0
          /\ (api.input.last.io # NoCounters /\ Elapsed <= 0) => api.result.speed.num = 0
          /\ api.result.baseline = [io |-> api.input.io, time |-> api.input.now]
    /\ \A k \in 1..MaxClock :
          samples[k].by # None =>
             /\ samples[k].speed.den > 0
             /\ samples[k].dt <= 0 => samples[k].speed.num = 0

\* the disk monitor's clock went back between the baseline and a reading
\* in which the counter had grown
C30_Witness ==
    /\ Returns("get_io_counters")
    /\ api.input.outcome = "ok"
    /\ api.input.last.io # NoCounters
    /\ api.input.io > api.input.last.io
    /\ Elapsed < 0
    /\ api.result.baseline.time = api.input.now

\* the step changes the flag, the thread handle, the lock, a deque or the
\* rate baseline of monitor m
Touched(m) ==
    \/ running'[m] # running[m]
    \/ thread'[m] # thread[m]
    \/ lock'[m] # lock[m]
    \/ history'[m] # history[m]
    \/ rate'[m] # rate[m]

\* the monitors the threads that take the step are working on
ActedOn ==
    {recorders'[t].mon : t \in {u \in ThreadIds : recorders'[u] # recorders[u]}}
    \cup {callers[c].mon : c \in {d \in Callers : callers'[d] # callers[d]}}
    \cup {callers'[c].mon : c \in {d \in Callers : callers'[d] # callers[d]}}

\* C21: a step changes the flag, thread handle, lock, deques and rate
\* baseline of no monitor but the one the acting thread works on, and of
\* one monitor at most; and a recorder that is neither sleeping nor at its
\* "with self._lock:" can always go on, while one at its "with
\* self._lock:" can go on unless the lock of its own monitor is held by a
\* recorder of that same monitor.
C21_MonitorsIsolated ==
    /\ [](\A t \in ThreadIds :
            LET m == recorders[t].mon IN
            Alive(t) =>
               /\ recorders[t].pc \notin {"sleep", "acquire"} => ENABLED RecorderStep(t)
               /\ recorders[t].pc = "acquire" =>
                     \/ ENABLED Acquire(t)
                     \/ /\ lock[m] \in ThreadIds
                        /\ recorders[lock[m]].mon = m)
    /\ [][\A m \in Monitors :
            Touched(m) => /\ m \in ActedOn
                          /\ \A n \in Monitors \ {m} : ~Touched(n)]_vars

\* the memory and process recorders have both appended, the memory monitor
\* has been stopped and the process recorder is still running
C21_Witness ==
    /\ Len(log["memory"].timestamps) >= 1
    /\ Len(log["process"].timestamps) >= 1
    /\ lastOp["memory"] = "stop"
    /\ ~running["memory"]
    /\ running["process"]
    /\ AliveOf("process") # {}

====
